---- MODULE Spec2Model ----
(***************************************************************************)
(* Model of email_header_parser.py: load_data scans a directory and parses *)
(* every '*.eml' file with parse_header, which records the lower-cased     *)
(* header names in the process-wide set email_header_fields and extracts   *)
(* username / password / ip from the body with pull_artifacts;             *)
(* write_data_to_file then emits the tab-delimited table.                  *)
(*                                                                         *)
(* Text is modelled as a sequence of character codes (ASCII), so that case *)
(* folding, lexicographic sorting and the regular expressions are computed *)
(* on characters as the program computes them.                             *)
(***************************************************************************)
EXTENDS Integers, Sequences, FiniteSets, TLC

VARIABLES
    pc,              \* position of main / load_data / write_data_to_file
    scanned,         \* directory entries os.scandir has yielded so far, in scan order
    data,            \* load_data: the list `data` (processed_data in main)
    email_header_fields, \* the module-level set of header names
    fileRef,         \* load_data: index in scanned of the file object bound to `file` (0: unbound)
    openInputs,      \* indices in scanned of the input file objects that are open
    csv_columns,     \* write_data_to_file: the column list
    outOpen,         \* write_data_to_file: the output file is open
    output,          \* rows written to the output file
    rowIdx,          \* write_data_to_file: index of the next record to write
    writeRet,        \* return value of write_data_to_file: "none", "true", "false"
    stdout,          \* lines printed
    exitCode,        \* process exit status (-1 while running)
    artBody,         \* pull_artifacts: the argument `body`
    artResult        \* pull_artifacts: the returned triple

vars == <<pc, scanned, data, email_header_fields, fileRef, openInputs, csv_columns,
          outOpen, output, rowIdx, writeRet, stdout, exitCode, artBody, artResult>>

pipeVars == <<pc, scanned, data, email_header_fields, fileRef, openInputs, csv_columns,
              outOpen, output, rowIdx, writeRet, stdout, exitCode>>

----------------------------------------------------------------------------
(* Bounds *)

MaxFiles == 2      \* directory entries yielded by one scan
MaxHeaders == 2    \* header lines of one message
MaxChunks == 3     \* text chunks making up a body given to pull_artifacts

----------------------------------------------------------------------------
(* Text: sequences of character codes *)

S_body == <<98, 111, 100, 121>>
S_username == <<117, 115, 101, 114, 110, 97, 109, 101>>
S_password == <<112, 97, 115, 115, 119, 111, 114, 100>>
S_ip == <<105, 112>>
S_source_email_file == <<115, 111, 117, 114, 99, 101, 45, 101, 109, 97, 105, 108, 45, 102, 105, 108, 101>>
S_email == <<101, 109, 97, 105, 108>>
S_email_password == S_email \o <<32>> \o S_password
S_pass == <<112, 97, 115, 115>>
S_pd == <<112, 100>>
S_ps == <<112, 115>>
S_star == <<42>>
S_None == <<78, 111, 110, 101>>
S_dot_eml == <<46, 101, 109, 108>>

Range(s) == {s[i] : i \in 1..Len(s)}

\* str.lower() on one ASCII character
LowerChar(c) == IF c \in 65..90 THEN c + 32 ELSE c

\* str.lower()
Lower(s) == [i \in 1..Len(s) |-> LowerChar(s[i])]

\* s[a..b] (1-based, inclusive), empty when a > b
Slice(s, a, b) == IF a > b THEN <<>> ELSE SubSeq(s, a, b)

\* characters str.strip() removes
Whitespace == (9..13) \cup (28..32)

\* str.strip()
Strip(s) ==
    LET keep == {i \in 1..Len(s) : s[i] \notin Whitespace}
    IN  IF keep = {} THEN <<>>
        ELSE LET first == CHOOSE i \in keep : \A j \in keep : i <= j
                 last == CHOOSE i \in keep : \A j \in keep : j <= i
             IN  SubSeq(s, first, last)

\* Python's ordering of str: lexicographic by code point, a proper prefix first
RECURSIVE StrLess(_, _)
StrLess(a, b) ==
    IF Len(b) = 0 THEN FALSE
    ELSE IF Len(a) = 0 THEN TRUE
    ELSE IF a[1] # b[1] THEN a[1] < b[1]
    ELSE StrLess(Tail(a), Tail(b))

\* sorted(set of str)
RECURSIVE sorted(_)
sorted(set) ==
    IF set = {} THEN <<>>
    ELSE LET least == CHOOSE x \in set : \A y \in set \ {x} : StrLess(x, y)
         IN  <<least>> \o sorted(set \ {least})

----------------------------------------------------------------------------
(* pull_artifacts: the three regular-expression searches *)

NoMatch == [found |-> FALSE, group |-> <<>>]

\* the keyword kw (lower case) stands at position p of s, compared under re.IGNORECASE
KeywordAt(s, p, kw) ==
    /\ p + Len(kw) - 1 <= Len(s)
    /\ Lower(SubSeq(s, p, p + Len(kw) - 1)) = kw

\* ' *': the position after the longest run of spaces starting at q
SkipSpaces(s, q) ==
    CHOOSE i \in q..(Len(s) + 1) :
        /\ i = Len(s) + 1 \/ s[i] # 32
        /\ \A j \in q..(i - 1) : s[j] = 32

\* '(.*)': '.' matches every character but the newline, greedily
LineEnd(s, from) ==
    CHOOSE e \in (from - 1)..Len(s) :
        /\ e = Len(s) \/ s[e + 1] = 10
        /\ \A j \in from..e : s[j] # 10

\* 'kw *:(.*)' tried at position p: group 2 when it matches
KeywordMatchAt(s, p, kw) ==
    IF ~KeywordAt(s, p, kw) THEN NoMatch
    ELSE LET c == SkipSpaces(s, p + Len(kw))
         IN  IF c <= Len(s) /\ s[c] = 58
             THEN [found |-> TRUE, group |-> Slice(s, c + 1, LineEnd(s, c + 1))]
             ELSE NoMatch

\* '(kw1|kw2|...) *:(.*)' tried at position p: the alternatives in their written order
RECURSIVE AlternationAt(_, _, _)
AlternationAt(s, p, kws) ==
    IF kws = <<>> THEN NoMatch
    ELSE LET m == KeywordMatchAt(s, p, Head(kws))
         IN  IF m.found THEN m ELSE AlternationAt(s, p, Tail(kws))

\* re.search: the start positions from left to right, the first that matches
RECURSIVE KeywordSearchFrom(_, _, _)
KeywordSearchFrom(s, p, kws) ==
    IF p > Len(s) + 1 THEN NoMatch
    ELSE LET m == AlternationAt(s, p, kws)
         IN  IF m.found THEN m ELSE KeywordSearchFrom(s, p + 1, kws)

\* re.search('(username|email) *:(.*)', s, re.IGNORECASE)
UserSearch(s) == KeywordSearchFrom(s, 1, <<S_username, S_email>>)

\* re.search('(email password|password|pass|pd|ps) *:(.*)', s, re.IGNORECASE)
PasswordSearch(s) ==
    KeywordSearchFrom(s, 1, <<S_email_password, S_password, S_pass, S_pd, S_ps>>)

IsDigit(c) == c \in 48..57

\* ':*': the position after the longest run of colons starting at p
SkipColons(s, p) ==
    CHOOSE i \in p..(Len(s) + 1) :
        /\ i = Len(s) + 1 \/ s[i] # 58
        /\ \A j \in p..(i - 1) : s[j] = 58

\* the ways '\d{1,3}\.\d{1,3}\.\d{1,3}\.\d{1,3}' matches at q: the four group lengths
QuadsAt(s, q) ==
    {n \in (1..3) \X (1..3) \X (1..3) \X (1..3) :
        LET d2 == q + n[1] + 1
            d3 == d2 + n[2] + 1
            d4 == d3 + n[3] + 1
            e == d4 + n[4] - 1
        IN  /\ e <= Len(s)
            /\ \A i \in q..(q + n[1] - 1) : IsDigit(s[i])
            /\ s[d2 - 1] = 46
            /\ \A i \in d2..(d2 + n[2] - 1) : IsDigit(s[i])
            /\ s[d3 - 1] = 46
            /\ \A i \in d3..(d3 + n[3] - 1) : IsDigit(s[i])
            /\ s[d4 - 1] = 46
            /\ \A i \in d4..e : IsDigit(s[i])}

\* greedy quantifiers: the earlier group takes as many digits as a match allows
GreedyBefore(m, n) ==
    \E k \in 1..4 : m[k] > n[k] /\ \A j \in 1..(k - 1) : m[j] = n[j]

\* ':*(quad)' tried at position p: group 1 when it matches
IpMatchAt(s, p) ==
    LET q == SkipColons(s, p)
        ways == QuadsAt(s, q)
    IN  IF ways = {} THEN NoMatch
        ELSE LET n == CHOOSE m \in ways : \A o \in ways \ {m} : GreedyBefore(m, o)
             IN  [found |-> TRUE, group |-> SubSeq(s, q, q + n[1] + n[2] + n[3] + n[4] + 2)]

RECURSIVE IpSearchFrom(_, _)
IpSearchFrom(s, p) ==
    IF p > Len(s) + 1 THEN NoMatch
    ELSE LET m == IpMatchAt(s, p)
         IN  IF m.found THEN m ELSE IpSearchFrom(s, p + 1)

\* re.search(':*(\d{1,3}\.\d{1,3}\.\d{1,3}\.\d{1,3})', s, re.IGNORECASE)
IpSearch(s) == IpSearchFrom(s, 1)

\* str(body): an absent body (None) reads "None"
StrOf(body) == IF body.absent THEN S_None ELSE body.text

\* m.group(k).strip() if the search matched, else "*"
Artifact(m) == IF m.found THEN Strip(m.group) ELSE S_star

\* the password and the address looked for only when a username was found
pull_artifacts_short_circuit(body) ==
    IF UserSearch(StrOf(body)).found
    THEN [user |-> Artifact(UserSearch(StrOf(body))),
          pwd |-> Artifact(PasswordSearch(StrOf(body))),
          ip |-> Artifact(IpSearch(StrOf(body)))]
    ELSE [user |-> S_star, pwd |-> S_star, ip |-> S_star]

pull_artifacts(body) ==
    [user |-> Artifact(UserSearch(StrOf(body))),
     pwd |-> Artifact(PasswordSearch(StrOf(body))),
     ip |-> Artifact(IpSearch(StrOf(body)))]

Text(t) == [absent |-> FALSE, text |-> t]
Absent == [absent |-> TRUE, text |-> <<>>]

----------------------------------------------------------------------------
(* Bodies given to pull_artifacts: up to MaxChunks chunks of text, or None *)

Chunks ==
    { <<85, 115, 101, 114, 110, 97, 109, 101>>,                          \* "Username"
      S_email,                                                           \* "email"
      <<69, 109, 97, 105, 108, 32, 80, 97, 115, 115, 119, 111, 114, 100>>, \* "Email Password"
      S_pass,                                                            \* "pass"
      <<119, 111, 114, 100>>,                                            \* "word"
      S_ps,                                                              \* "ps"
      <<80, 68>>,                                                        \* "PD"
      <<58>>,                                                            \* ":"
      <<32>>,                                                            \* " "
      <<10>>,                                                            \* "\n"
      S_star,                                                            \* "*"
      <<49, 46, 50, 46>>,                                                \* "1.2."
      <<51, 46, 52, 53>>,                                                \* "3.45"
      <<49, 46, 50, 46, 51, 46, 52>> }                                   \* "1.2.3.4"

RECURSIVE ChunkTexts(_)
ChunkTexts(k) ==
    IF k = 0 THEN {<<>>}
    ELSE LET shorter == ChunkTexts(k - 1)
         IN  shorter \cup {t \o c : t \in shorter, c \in Chunks}

ArtifactBodies == {Absent} \cup {Text(t) : t \in ChunkTexts(MaxChunks)}

NoArtifacts == [done |-> FALSE, user |-> <<>>, pwd |-> <<>>, ip |-> <<>>]

----------------------------------------------------------------------------
(* Messages, directory entries and records *)

\* a record value: one string, or the list message.get_all returns
Scalar(v) == [multi |-> FALSE, vals |-> <<v>>]
Multi(vs) == [multi |-> TRUE, vals |-> vs]

\* a header line
HeaderLine(n, v) == [name |-> n, value |-> v]

\* the value of the i-th header line: "x", "y", "z", ... (tells the lines apart)
HeaderValue(i) == <<119 + i>>

\* header names that differ in letter case only
HeaderNamePool ==
    { <<83>>,      \* "S"
      <<115>> }    \* "s"

\* further messages: a second name, and names that lower-case to a reserved key
SampleHeaderLists ==
    { <<HeaderLine(<<66>>, HeaderValue(1))>>,                                    \* B
      <<HeaderLine(<<83>>, HeaderValue(1)), HeaderLine(<<98>>, HeaderValue(2))>>, \* S, b
      <<HeaderLine(<<66, 111, 100, 121>>, HeaderValue(1))>>,                     \* Body
      <<HeaderLine(<<83, 111, 117, 114, 99, 101, 45, 69, 109, 97, 105, 108,
                     45, 70, 105, 108, 101>>, HeaderValue(1))>> }                \* Source-Email-File

\* the header lines of a message: up to MaxHeaders lines named from the pool, or
\* one of the samples
HeaderLists ==
    UNION {{[i \in 1..n |-> HeaderLine(f[i], HeaderValue(i))] :
                f \in [1..n -> HeaderNamePool]} : n \in 0..MaxHeaders}
    \cup SampleHeaderLists

\* the '*.eml' files a directory may hold: a name and a body text
FileSamples ==
    { [name |-> <<65, 46, 101, 109, 108>>,                               \* "A.eml"
       body |-> <<112, 115, 58, 49, 46, 50, 46, 51, 46, 52>>] }          \* "ps:1.2.3.4"

EmptyMessage == [headers |-> <<>>, body |-> <<>>]

\* what os.scandir may yield: matching files, an empty matching file, a file of
\* another name, a sub-directory
Entries ==
    {[name |-> f.name, is_file |-> TRUE, msg |-> [headers |-> h, body |-> f.body]] :
        f \in FileSamples, h \in HeaderLists}
    \cup {[name |-> <<98, 46, 101, 109, 108>>, is_file |-> TRUE, msg |-> EmptyMessage], \* "b.eml"
          [name |-> <<97, 46, 69, 77, 76>>, is_file |-> TRUE, msg |-> EmptyMessage],   \* "a.EML"
          [name |-> <<100, 46, 101, 109, 108>>, is_file |-> FALSE, msg |-> EmptyMessage]} \* "d.eml/"

\* sys.argv[1]
DirPath == <<68>>

\* entry.path: os.path.join(path, entry.name)
EntryPath(e) == DirPath \o <<47>> \o e.name

\* fnmatch.fnmatch(name, '*.eml'): os.path.normcase keeps the case (POSIX),
\* '*' matches any run of characters, so the text has to end in ".eml"
fnmatch(name) ==
    /\ Len(name) >= Len(S_dot_eml)
    /\ SubSeq(name, Len(name) - Len(S_dot_eml) + 1, Len(name)) = S_dot_eml

\* line 40 without the is_file() test
Selected_any_entry(e) == fnmatch(EntryPath(e))

\* load_data line 40
Selected(e) == e.is_file /\ fnmatch(EntryPath(e))

\* os.path.basename
basename(path) ==
    LET seps == {i \in 1..Len(path) : path[i] = 47}
    IN  IF seps = {} THEN path
        ELSE Slice(path, (CHOOSE i \in seps : \A j \in seps : j <= i) + 1, Len(path))

\* line 52 without lower()
email_headers_as_written(msg) == [i \in 1..Len(msg.headers) |-> msg.headers[i].name]

\* [x.lower() for x in message.keys()]
email_headers(msg) == [i \in 1..Len(msg.headers) |-> Lower(msg.headers[i].name)]

\* email_headers.count(x)
Count(seq, x) == Cardinality({i \in 1..Len(seq) : seq[i] = x})

dup_email_header_fields(msg) ==
    {x \in Range(email_headers(msg)) : Count(email_headers(msg), x) > 1}

uniq_email_header_fields(msg) == Range(email_headers(msg))

\* the header lines whose name equals x when both are lower-cased
LinesNamed(msg, x) == {i \in 1..Len(msg.headers) : Lower(msg.headers[i].name) = Lower(x)}

\* message.get(x): the value of the first header line named x
MessageGet(msg, x) ==
    LET first == CHOOSE i \in LinesNamed(msg, x) : \A j \in LinesNamed(msg, x) : i <= j
    IN  Scalar(msg.headers[first].value)

RECURSIVE ValuesNamed(_, _, _)
ValuesNamed(msg, x, i) ==
    IF i > Len(msg.headers) THEN <<>>
    ELSE (IF i \in LinesNamed(msg, x) THEN <<msg.headers[i].value>> ELSE <<>>)
         \o ValuesNamed(msg, x, i + 1)

\* message.get_all(x): the values of all header lines named x, in message order
MessageGetAll(msg, x) == Multi(ValuesNamed(msg, x, 1))

\* header[k] = v
Assign(header, k, v) == [x \in DOMAIN header \cup {k} |-> IF x = k THEN v ELSE header[x]]

\* lines 68-72: header[x] for every x of uniq_email_header_fields
HeaderValueOf(msg, x) ==
    IF x \notin dup_email_header_fields(msg) THEN MessageGet(msg, x) ELSE MessageGetAll(msg, x)

\* the dictionary parse_header returns for the file of directory entry e
parse_header(e) ==
    LET msg == e.msg
        uniq == uniq_email_header_fields(msg)
        h0 == [x \in {S_source_email_file} |-> Scalar(basename(Lower(EntryPath(e))))]
        h1 == [x \in DOMAIN h0 \cup uniq |-> IF x \in uniq THEN HeaderValueOf(msg, x) ELSE h0[x]]
        h2 == Assign(h1, S_body, Scalar(msg.body))
        art == pull_artifacts(Text(h2[S_body].vals[1]))
        h3 == Assign(h2, S_username, Scalar(art.user))
        h4 == Assign(h3, S_password, Scalar(art.pwd))
    IN  Assign(h4, S_ip, Scalar(art.ip))

\* the set replaced by the names of the last file
add_email_header_tracker_replacing(fields, header_f) == header_f

\* add_email_header_tracker: every name not yet in the set is added
add_email_header_tracker(fields, header_f) == fields \cup {x \in header_f : x \notin fields}

\* the user-defined columns appended in write_data_to_file
UserColumns == <<S_body, S_username, S_password, S_ip, S_source_email_file>>

\* the user-defined columns put first
ColumnsOf_user_first(fields) == UserColumns \o sorted(fields)

\* lines 123-124
ColumnsOf(fields) == sorted(fields) \o UserColumns

\* str(list of str): "['a', 'b']"
RECURSIVE ListItems(_)
ListItems(vs) ==
    IF vs = <<>> THEN <<>>
    ELSE <<39>> \o Head(vs) \o <<39>>
         \o (IF Len(vs) > 1 THEN <<44, 32>> ELSE <<>>) \o ListItems(Tail(vs))

\* the text csv writes for a value
FieldText(v) == IF v.multi THEN <<91>> \o ListItems(v.vals) \o <<93>> ELSE v.vals[1]

\* DictWriter._dict_to_list with restval '': the row of a record
RowOf(rec, columns) ==
    [i \in 1..Len(columns) |->
        IF columns[i] \in DOMAIN rec THEN FieldText(rec[columns[i]]) ELSE <<>>]

Line(m, n) == [msg |-> m, n |-> n]

----------------------------------------------------------------------------
(* The program: main, load_data, write_data_to_file *)

Init ==
    /\ pc = "start"
    /\ scanned = <<>>
    /\ data = <<>>
    /\ email_header_fields = {}
    /\ fileRef = 0
    /\ openInputs = {}
    /\ csv_columns = <<>>
    /\ outOpen = FALSE
    /\ output = <<>>
    /\ rowIdx = 0
    /\ writeRet = "none"
    /\ stdout = <<>>
    /\ exitCode = -1
    /\ artBody = Absent
    /\ artResult = NoArtifacts

\* main lines 19-23: wrong argument count or missing path, sys.exit(message)
MainUsageError ==
    /\ pc = "start"
    /\ stdout' = Append(stdout, Line("usage", 0))
    /\ exitCode' = 1
    /\ pc' = "exit"
    /\ UNCHANGED <<scanned, data, email_header_fields, fileRef, openInputs, csv_columns,
                   outOpen, output, rowIdx, writeRet, artBody, artResult>>

\* main line 25, load_data lines 35-38: the scan begins
MainStart ==
    /\ pc = "start"
    /\ pc' = "scan"
    /\ UNCHANGED <<scanned, data, email_header_fields, fileRef, openInputs, csv_columns,
                   outOpen, output, rowIdx, writeRet, stdout, exitCode, artBody, artResult>>

\* load_data lines 39-40: the scan yields an entry the condition rejects
ScanSkip(e) ==
    /\ pc = "scan"
    /\ Len(scanned) < MaxFiles
    /\ ~Selected(e)
    /\ scanned' = Append(scanned, e)
    /\ UNCHANGED <<pc, data, email_header_fields, fileRef, openInputs, csv_columns,
                   outOpen, output, rowIdx, writeRet, stdout, exitCode, artBody, artResult>>

\* load_data lines 39-42: the scan yields a selected entry, its file is opened and
\* bound to `file`; the file object bound before stays open, now unreferenced
OpenEntry(e) ==
    /\ pc = "scan"
    /\ Len(scanned) < MaxFiles
    /\ Selected(e)
    /\ scanned' = Append(scanned, e)
    /\ stdout' = Append(stdout, Line("working", 0))
    /\ openInputs' = openInputs \cup {Len(scanned) + 1}
    /\ fileRef' = Len(scanned) + 1
    /\ pc' = "parse"
    /\ UNCHANGED <<data, email_header_fields, csv_columns, outOpen, output, rowIdx,
                   writeRet, exitCode, artBody, artResult>>

\* load_data lines 43-44 with parse_header lines 51-80
ParseEntry ==
    /\ pc = "parse"
    /\ email_header_fields' =
           add_email_header_tracker(email_header_fields,
                                    uniq_email_header_fields(scanned[fileRef].msg))
    /\ data' = Append(data, parse_header(scanned[fileRef]))
    /\ pc' = "scan"
    /\ UNCHANGED <<scanned, fileRef, openInputs, csv_columns, outOpen, output, rowIdx,
                   writeRet, stdout, exitCode, artBody, artResult>>

\* load_data lines 38-45: the scan is exhausted, load_data returns and its local
\* `file` goes out of scope without a close()
EndScan ==
    /\ pc = "scan"
    /\ fileRef' = 0
    /\ pc' = "loaded"
    /\ UNCHANGED <<scanned, data, email_header_fields, openInputs, csv_columns, outOpen,
                   output, rowIdx, writeRet, stdout, exitCode, artBody, artResult>>

\* no close() in the program: an input file object is closed by the runtime's
\* finalizer, some time after the last reference to it is gone
Finalize ==
    /\ pc # "exit"
    /\ openInputs \ {fileRef} # {}
    /\ openInputs' = openInputs \cap {fileRef}
    /\ UNCHANGED <<pc, scanned, data, email_header_fields, fileRef, csv_columns, outOpen,
                   output, rowIdx, writeRet, stdout, exitCode, artBody, artResult>>

\* main line 26
PrintProcessed ==
    /\ pc = "loaded"
    /\ stdout' = Append(stdout, Line("processed", Len(data)))
    /\ pc' = "write"
    /\ UNCHANGED <<scanned, data, email_header_fields, fileRef, openInputs, csv_columns,
                   outOpen, output, rowIdx, writeRet, exitCode, artBody, artResult>>

\* write_data_to_file lines 123-130: the columns are computed, the file is opened
WriteOpen ==
    /\ pc = "write"
    /\ csv_columns' = ColumnsOf(email_header_fields)
    /\ outOpen' = TRUE
    /\ output' = <<>>
    /\ pc' = "wheader"
    /\ UNCHANGED <<scanned, data, email_header_fields, fileRef, openInputs, rowIdx,
                   writeRet, stdout, exitCode, artBody, artResult>>

\* write_data_to_file lines 123-129, 135-137: open() raises IOError
WriteOpenFails ==
    /\ pc = "write"
    /\ csv_columns' = ColumnsOf(email_header_fields)
    /\ stdout' = Append(stdout, Line("ioerror", 0))
    /\ writeRet' = "false"
    /\ pc' = "wreturned"
    /\ UNCHANGED <<scanned, data, email_header_fields, fileRef, openInputs, outOpen,
                   output, rowIdx, exitCode, artBody, artResult>>

\* write_data_to_file line 131
WriteHeader ==
    /\ pc = "wheader"
    /\ output' = Append(output, csv_columns)
    /\ rowIdx' = 1
    /\ pc' = "wrows"
    /\ UNCHANGED <<scanned, data, email_header_fields, fileRef, openInputs, csv_columns,
                   outOpen, writeRet, stdout, exitCode, artBody, artResult>>

\* write_data_to_file lines 132-133: DictWriter.writerow raises ValueError (not
\* caught) for a key outside fieldnames, else writes the row
WriteRow ==
    /\ pc = "wrows"
    /\ rowIdx <= Len(data)
    /\ IF DOMAIN data[rowIdx] \subseteq Range(csv_columns)
       THEN /\ output' = Append(output, RowOf(data[rowIdx], csv_columns))
            /\ rowIdx' = rowIdx + 1
            /\ UNCHANGED <<pc, outOpen, exitCode>>
       ELSE /\ outOpen' = FALSE
            /\ exitCode' = 1
            /\ pc' = "exit"
            /\ UNCHANGED <<output, rowIdx>>
    /\ UNCHANGED <<scanned, data, email_header_fields, fileRef, openInputs, csv_columns,
                   writeRet, stdout, artBody, artResult>>

\* write_data_to_file lines 129-134: the loop is over, the with block closes the
\* file, return True
WriteClose ==
    /\ pc = "wrows"
    /\ rowIdx > Len(data)
    /\ outOpen' = FALSE
    /\ writeRet' = "true"
    /\ pc' = "wreturned"
    /\ UNCHANGED <<scanned, data, email_header_fields, fileRef, openInputs, csv_columns,
                   output, rowIdx, stdout, exitCode, artBody, artResult>>

\* write_data_to_file lines 135-137: a write raises IOError inside the with block,
\* which closes the file; "I/O Error!" is printed, return False
WriteIOError ==
    /\ pc \in {"wheader", "wrows"}
    /\ outOpen' = FALSE
    /\ stdout' = Append(stdout, Line("ioerror", 0))
    /\ writeRet' = "false"
    /\ pc' = "wreturned"
    /\ UNCHANGED <<scanned, data, email_header_fields, fileRef, openInputs, csv_columns,
                   output, rowIdx, exitCode, artBody, artResult>>

\* main lines 27-28: the success line only for a True result; main returns, the
\* interpreter exits with status 0
MainEnd ==
    /\ pc = "wreturned"
    /\ stdout' = IF writeRet = "true" THEN Append(stdout, Line("success", 0)) ELSE stdout
    /\ exitCode' = 0
    /\ pc' = "exit"
    /\ UNCHANGED <<scanned, data, email_header_fields, fileRef, openInputs, csv_columns,
                   outOpen, output, rowIdx, writeRet, artBody, artResult>>

Next ==
    \/ MainUsageError
    \/ MainStart
    \/ \E e \in Entries : ScanSkip(e)
    \/ \E e \in Entries : OpenEntry(e)
    \/ ParseEntry
    \/ EndScan
    \/ Finalize
    \/ PrintProcessed
    \/ WriteOpen
    \/ WriteOpenFails
    \/ WriteHeader
    \/ WriteRow
    \/ WriteClose
    \/ WriteIOError
    \/ MainEnd

Spec == Init /\ [][Next]_vars

----------------------------------------------------------------------------
(* pull_artifacts on its own: one call on a body drawn from ArtifactBodies *)

InitArtifacts ==
    /\ pc = "start"
    /\ scanned = <<>>
    /\ data = <<>>
    /\ email_header_fields = {}
    /\ fileRef = 0
    /\ openInputs = {}
    /\ csv_columns = <<>>
    /\ outOpen = FALSE
    /\ output = <<>>
    /\ rowIdx = 0
    /\ writeRet = "none"
    /\ stdout = <<>>
    /\ exitCode = -1
    /\ artBody \in ArtifactBodies
    /\ artResult = NoArtifacts

PullArtifacts ==
    /\ ~artResult.done
    /\ artResult' = [done |-> TRUE] @@ pull_artifacts(artBody)
    /\ UNCHANGED <<artBody, pipeVars>>

NextArtifacts == PullArtifacts

SpecArtifacts == InitArtifacts /\ [][NextArtifacts]_vars

----------------------------------------------------------------------------
(* Vocabulary of the properties, stated on characters and not through the  *)
(* operators of the program                                                *)

ReservedKeys == {S_source_email_file, S_body, S_username, S_password, S_ip}

IsUpper(c) == c \in 65..90

IsLowerCase(s) == \A i \in 1..Len(s) : ~IsUpper(s[i])

\* the same letter, in either case
SameLetter(a, b) ==
    \/ a = b
    \/ IsUpper(a) /\ b = a + 32
    \/ IsUpper(b) /\ a = b + 32

\* two texts that differ at most in letter case
SameIgnoringCase(a, b) ==
    Len(a) = Len(b) /\ \A i \in 1..Len(a) : SameLetter(a[i], b[i])

\* a regular file whose name ends in ".eml"
IsEmlFile(e) ==
    e.is_file /\ \E k \in 0..Len(e.name) : e.name = SubSeq(e.name, 1, k) \o S_dot_eml

\* the entries of the scan that are '*.eml' files, in scan order
RECURSIVE EmlFiles(_)
EmlFiles(seq) ==
    IF seq = <<>> THEN <<>>
    ELSE (IF IsEmlFile(Head(seq)) THEN <<Head(seq)>> ELSE <<>>) \o EmlFiles(Tail(seq))

\* the files load_data has finished with: all selected ones, but the one being parsed
Processed ==
    LET all == EmlFiles(scanned)
    IN  IF pc = "parse" THEN SubSeq(all, 1, Len(all) - 1) ELSE all

\* the header lines of message msg whose name is x up to letter case
Occurrences(msg, x) == {i \in 1..Len(msg.headers) : SameIgnoringCase(msg.headers[i].name, x)}

\* the lower-case spellings of the header names of message msg
FoldedNames(msg) ==
    {x \in {Lower(msg.headers[i].name) : i \in 1..Len(msg.headers)} : IsLowerCase(x)}

\* record r has the keys and the body of the message of entry e
RecordOfEntry(r, e) ==
    /\ \A i \in 1..Len(e.msg.headers) :
           \E k \in DOMAIN r : IsLowerCase(k) /\ SameIgnoringCase(k, e.msg.headers[i].name)
    /\ \A k \in DOMAIN r \ ReservedKeys : Occurrences(e.msg, k) # {}
    /\ ReservedKeys \subseteq DOMAIN r
    /\ r[S_body] = Scalar(e.msg.body)

----------------------------------------------------------------------------
(* Properties *)

\* C1: load_data yields exactly one record per directory entry that is a regular
\* file named '*.eml', in scan order, whatever the message holds: the i-th record
\* carries the header names and the body of the i-th such entry, no other entry
\* yields a record, and the scan goes on after every file.
C1_OneRecordPerEmlFile ==
    /\ Len(data) = Len(Processed)
    /\ \A i \in 1..Len(data) : RecordOfEntry(data[i], Processed[i])

\* load_data has returned one record for a directory whose first entry is not
\* an '*.eml' file and whose last entry is one
W_C1_SkippedThenLoaded ==
    /\ pc = "loaded"
    /\ Len(scanned) = MaxFiles
    /\ ~IsEmlFile(scanned[1])
    /\ IsEmlFile(scanned[Len(scanned)])
    /\ Len(data) = Len(EmlFiles(scanned))

\* C4: a completed write holds the header row, made of the schema names in
\* ascending lexicographic order followed by body, username, password, ip,
\* source-email-file, then one row per record in list order, empty in every
\* column the record has no key for and holding the value of a single-valued
\* key; with no record the loop is over at once and the header row is all.
C4_TableLayout ==
    /\ writeRet = "true" =>
         LET n == Cardinality(email_header_fields)
         IN  /\ Len(output) = Len(data) + 1
             /\ Len(output[1]) = n + 5
             /\ {output[1][c] : c \in 1..n} = email_header_fields
             /\ \A c, d \in 1..n : c < d => StrLess(output[1][c], output[1][d])
             /\ \A c \in 1..5 : output[1][n + c] = UserColumns[c]
             /\ \A r \in 1..Len(data) :
                    /\ Len(output[r + 1]) = n + 5
                    /\ \A c \in 1..(n + 5) :
                         IF output[1][c] \notin DOMAIN data[r]
                         THEN output[r + 1][c] = <<>>
                         ELSE ~data[r][output[1][c]].multi
                                  => output[r + 1][c] = data[r][output[1][c]].vals[1]
    /\ (pc = "wrows" /\ data = <<>>) => (Len(output) = 1 /\ ENABLED WriteClose)

\* a table of two records was written whose schema holds two names, one of
\* them missing from a record
W_C4_WrittenWithBlank ==
    /\ writeRet = "true"
    /\ Len(data) = 2
    /\ Cardinality(email_header_fields) >= 2
    /\ \E r \in 1..2 : \E x \in email_header_fields : x \notin DOMAIN data[r]

\* C5: every name of the schema set and every key of every record is lower
\* case, the schema holds no two names that differ only in letter case, and
\* every header line of a processed message, whatever its letter case, has its
\* lower-case name as a key of its record and as a name of the schema.
C5_NamesFolded ==
    /\ \A x \in email_header_fields : IsLowerCase(x)
    /\ \A a, b \in email_header_fields : SameIgnoringCase(a, b) => a = b
    /\ \A i \in 1..Len(data) :
          /\ \A k \in DOMAIN data[i] : IsLowerCase(k)
          /\ i <= Len(Processed) =>
               \A j \in 1..Len(Processed[i].msg.headers) :
                   \E k \in email_header_fields \cap DOMAIN data[i] :
                       SameIgnoringCase(k, Processed[i].msg.headers[j].name)

\* two messages were processed whose header names differ only in letter case
W_C5_TwoSpellings ==
    /\ pc = "loaded"
    /\ Len(data) = 2
    /\ \E j \in 1..Len(scanned[1].msg.headers) : \E k \in 1..Len(scanned[2].msg.headers) :
          /\ scanned[1].msg.headers[j].name # scanned[2].msg.headers[k].name
          /\ SameIgnoringCase(scanned[1].msg.headers[j].name, scanned[2].msg.headers[k].name)

\* C6: no step removes a name from the schema set; the step that normalizes a
\* file leaves it equal to its previous value united with the lower-cased header
\* names of that file; the step that reads it for the columns is taken when it
\* equals the union over all '*.eml' files of the scan, and no file is scanned
\* or normalized from then on.
C6_SchemaOnlyGrows ==
    [][ /\ email_header_fields \subseteq email_header_fields'
        /\ (pc = "parse" /\ pc' # "parse") =>
              email_header_fields' =
                  email_header_fields \cup FoldedNames(scanned[fileRef].msg)
        /\ (pc = "write" /\ pc' # "write") =>
              /\ email_header_fields =
                     UNION {FoldedNames(scanned[i].msg) :
                                i \in {j \in 1..Len(scanned) : IsEmlFile(scanned[j])}}
              /\ Len(csv_columns') = Cardinality(email_header_fields) + 5
        /\ pc \notin {"start", "scan", "parse"} =>
              /\ pc' \notin {"scan", "parse"}
              /\ scanned' = scanned
              /\ email_header_fields' = email_header_fields ]_vars

\* the columns were computed after two files, the second of which brought a
\* name already in the schema and a new one
W_C6_GrownByUnion ==
    /\ pc = "wheader"
    /\ Len(data) = 2
    /\ FoldedNames(scanned[1].msg) \cap FoldedNames(scanned[2].msg) # {}
    /\ FoldedNames(scanned[2].msg) \ FoldedNames(scanned[1].msg) # {}

\* the values of the header lines of msg named x up to letter case, in message order
RECURSIVE OccurrenceValues(_, _, _)
OccurrenceValues(msg, x, i) ==
    IF i > Len(msg.headers) THEN <<>>
    ELSE (IF SameIgnoringCase(msg.headers[i].name, x) THEN <<msg.headers[i].value>> ELSE <<>>)
         \o OccurrenceValues(msg, x, i + 1)

\* C2: in every record, the lower-cased name of a header that occurs once in the
\* message maps to that single value, and a name that occurs k > 1 times (letter
\* case aside) maps to the sequence of its k values in message order.
C2_HeaderValuesKept ==
    \A i \in 1..Len(data) :
        \A j \in 1..Len(Processed[i].msg.headers) :
            \E k \in DOMAIN data[i] :
                /\ IsLowerCase(k)
                /\ SameIgnoringCase(k, Processed[i].msg.headers[j].name)
                /\ LET values == OccurrenceValues(Processed[i].msg, k, 1)
                   IN  IF Len(values) = 1
                       THEN data[i][k] = Scalar(values[1])
                       ELSE data[i][k] = Multi(values)

\* C3: every record holds the five reserved keys, and whatever the header names
\* of the message, source-email-file is the lower-cased name of the file, body
\* the payload, and username, password, ip the triple extracted from the payload.
C3_ReservedKeys ==
    \A i \in 1..Len(data) :
        LET r == data[i]
            e == Processed[i]
            art == pull_artifacts(Text(e.msg.body))
        IN  /\ ReservedKeys \subseteq DOMAIN r
            /\ ~r[S_source_email_file].multi
            /\ IsLowerCase(r[S_source_email_file].vals[1])
            /\ SameIgnoringCase(r[S_source_email_file].vals[1], e.name)
            /\ r[S_body] = Scalar(e.msg.body)
            /\ r[S_username] = Scalar(art.user)
            /\ r[S_password] = Scalar(art.pwd)
            /\ r[S_ip] = Scalar(art.ip)

Printed(m) == \E i \in 1..Len(stdout) : stdout[i].msg = m

\* C7: the success line is printed only after the header row and every record
\* row were written; a failed write is reported; the 'Processed N files' line is
\* printed before the write is attempted; and the exit status is non-zero
\* whenever the write failed, zero only when load and write both succeeded.
C7_WriteOutcomeReported ==
    /\ Printed("success") => (writeRet = "true" /\ Len(output) = Len(data) + 1)
    /\ writeRet = "false" => Printed("ioerror")
    /\ pc \in {"write", "wheader", "wrows", "wreturned"} =>
           \E i \in 1..Len(stdout) : stdout[i] = Line("processed", Len(data))
    /\ (pc = "exit" /\ writeRet = "false") => exitCode # 0
    /\ (pc = "exit" /\ exitCode = 0) => writeRet = "true"

\* C8: every file the program opens is closed again: never more than one input
\* file is open, none is open once load_data has returned, and the output file
\* is closed once write_data_to_file has returned.
C8_FilesClosed ==
    /\ Cardinality(openInputs) <= 1
    /\ pc \notin {"start", "scan", "parse"} => openInputs = {}
    /\ pc \in {"wreturned", "exit"} => ~outOpen

\* C10: once write_data_to_file has computed its columns, every key of every
\* record is one of them, so that no row is rejected, and no column name is
\* listed twice.
C10_ColumnsCoverKeys ==
    /\ pc \in {"wheader", "wrows", "wreturned"} =>
          /\ \A i \in 1..Len(data) : DOMAIN data[i] \subseteq Range(csv_columns)
          /\ \A a, b \in 1..Len(csv_columns) : a # b => csv_columns[a] # csv_columns[b]
    /\ exitCode = 1 => Printed("usage")

\* the text pull_artifacts searches
Searched == IF artBody.absent THEN S_None ELSE artBody.text

\* <<p, c>>: one of the keywords kws stands at position p of s, letter case aside,
\* followed by spaces only up to a colon at position c
KeywordSites(s, kws) ==
    {pc2 \in (1..Len(s)) \X {c \in 1..Len(s) : s[c] = 58} :
        \E kw \in kws :
            /\ pc2[1] + Len(kw) <= pc2[2]
            /\ SameIgnoringCase(SubSeq(s, pc2[1], pc2[1] + Len(kw) - 1), kw)
            /\ \A j \in (pc2[1] + Len(kw))..(pc2[2] - 1) : s[j] = 32}

\* v is the text of s after position c up to the end of the line, without the
\* white space around it
TrimmedRestOfLine(s, c, v) ==
    \E e \in c..Len(s) :
        /\ e = Len(s) \/ s[e + 1] = 10
        /\ \A j \in (c + 1)..e : s[j] # 10
        /\ \E a \in (c + 1)..(e + 1) : \E b \in (a - 1)..e :
              /\ v = Slice(s, a, b)
              /\ \A j \in ((c + 1)..(a - 1)) \cup ((b + 1)..e) : s[j] \in Whitespace
              /\ a <= b => (s[a] \notin Whitespace /\ s[b] \notin Whitespace)

\* v is what the leftmost keyword site of s gives
FromLeftmostSite(s, kws, v) ==
    \E site \in KeywordSites(s, kws) :
        /\ \A other \in KeywordSites(s, kws) : site[1] <= other[1]
        /\ TrimmedRestOfLine(s, site[2], v)

\* t reads as four groups of one to three digits separated by periods
IsQuadText(t) ==
    /\ Cardinality({i \in 1..Len(t) : t[i] = 46}) = 3
    /\ \A i \in 1..Len(t) : t[i] = 46 \/ t[i] \in 48..57
    /\ t[1] # 46 /\ t[Len(t)] # 46
    /\ \A i \in 1..(Len(t) - 1) : ~(t[i] = 46 /\ t[i + 1] = 46)
    /\ \A i \in 1..(Len(t) - 3) : \E j \in i..(i + 3) : t[j] = 46

\* <<a, b>>: s[a..b] is a dotted quad
QuadSites(s) ==
    {ab \in (1..Len(s)) \X (1..Len(s)) :
        /\ ab[1] + 6 <= ab[2]
        /\ ab[2] <= ab[1] + 14
        /\ IsQuadText(SubSeq(s, ab[1], ab[2]))}

\* v is the longest dotted quad at the leftmost position of s where one starts
FromLeftmostQuad(s, v) ==
    \E site \in QuadSites(s) :
        /\ \A other \in QuadSites(s) :
              site[1] < other[1] \/ (site[1] = other[1] /\ other[2] <= site[2])
        /\ v = SubSeq(s, site[1], site[2])

UserKeywords == {S_username, S_email}
PasswordKeywords == {S_email_password, S_password, S_pass, S_pd, S_ps}

\* C9 as stated: each component is the trimmed capture of the first match of its
\* own pattern when that pattern matches, and is "*" exactly when its pattern
\* has no match.
C9_PlaceholderIffNoMatch ==
    artResult.done =>
        /\ KeywordSites(Searched, UserKeywords) # {} =>
               FromLeftmostSite(Searched, UserKeywords, artResult.user)
        /\ artResult.user = S_star <=> KeywordSites(Searched, UserKeywords) = {}
        /\ KeywordSites(Searched, PasswordKeywords) # {} =>
               FromLeftmostSite(Searched, PasswordKeywords, artResult.pwd)
        /\ artResult.pwd = S_star <=> KeywordSites(Searched, PasswordKeywords) = {}
        /\ QuadSites(Searched) # {} => FromLeftmostQuad(Searched, artResult.ip)
        /\ artResult.ip = S_star <=> QuadSites(Searched) = {}

\* C9, amended: each component is decided by its own pattern alone: the trimmed
\* capture of the first match when the pattern matches (which may itself read
\* "*"), and "*" whenever the pattern has no match.
C9_EachSearchOnItsOwn ==
    artResult.done =>
        /\ IF KeywordSites(Searched, UserKeywords) # {}
           THEN FromLeftmostSite(Searched, UserKeywords, artResult.user)
           ELSE artResult.user = S_star
        /\ IF KeywordSites(Searched, PasswordKeywords) # {}
           THEN FromLeftmostSite(Searched, PasswordKeywords, artResult.pwd)
           ELSE artResult.pwd = S_star
        /\ IF QuadSites(Searched) # {}
           THEN FromLeftmostQuad(Searched, artResult.ip)
           ELSE artResult.ip = S_star

\* a body where the password and the address patterns match and the username
\* pattern does not
W_C9_TwoOfThreeMatch ==
    /\ artResult.done
    /\ KeywordSites(Searched, UserKeywords) = {}
    /\ KeywordSites(Searched, PasswordKeywords) # {}
    /\ QuadSites(Searched) # {}
    /\ artResult.user = S_star
    /\ artResult.pwd # S_star
    /\ artResult.ip # S_star

====
